---- MODULE Spec2Model ----
(***************************************************************************)
(* A model of src/cidr.py: the Cidr value type and CidrSet, a set of CIDR  *)
(* ranges kept as a binary trie (binarytree.Node: value = depth, left =    *)
(* bit 0, right = bit 1).                                                  *)
(*                                                                         *)
(* A tree of Node objects is modelled as the set of its nodes, each node   *)
(* named by the bit path from the root (<<>> is the root, <<0>> its left   *)
(* child, ...).  Every Node the code creates gets value = parent.value + 1 *)
(* (root: 0), so node.value is the length of the path.  CidrSet objects    *)
(* hold a reference to their root Node; the heap maps root references to   *)
(* trees, so that two CidrSet objects holding the same root reference see  *)
(* each other's in-place mutations.                                        *)
(*                                                                         *)
(* The address width, 32 in the code, is scaled down to AddrBits.          *)
(***************************************************************************)
EXTENDS Integers, Sequences, FiniteSets, TLC

\* Width of an address in bits (stands for the code's 32).
AddrBits == 2

VARIABLES
    root,   \* root[o]: the root reference of CidrSet object o, or None
    heap,   \* heap[i]: the tree whose root Node has reference i
    last,   \* the last call: its name, the object it was called on or
            \* bound its result to, and "ok" or "error" (it raised)
    arg,    \* the Cidr argument of the last add/remove call (or NoCidr)
    prev,   \* the tree of last.obj before the last add/remove call
    made,   \* made[v]: the Cidr object bound to the name v (or NoCidr)
    given,  \* given[v]: the arguments of the constructor call that made it
    trav    \* the traversal of an a + b or a - b whose while loop is running

vars == <<root, heap, last, arg, prev, made, given, trav>>

Pow2(n) == 2 ^ n

-----------------------------------------------------------------------------
(* Cidr *)

\* A variant of the constructor without the normalization.
Cidr_raw(ip, bitmask) == [ip |-> ip, bitmask |-> bitmask]

\* Cidr(ip=ip, bitmask=bitmask): the ip is normalized by zeroing the bits
\* the bitmask does not cover.
Cidr(ip, bitmask) ==
    [ip |-> (ip \div Pow2(AddrBits - bitmask)) * Pow2(AddrBits - bitmask),
     bitmask |-> bitmask]

\* The arguments the Cidr constructor accepts.
ValidIp == 0 .. (Pow2(AddrBits) - 1)
ValidBitmask == 0 .. AddrBits

\* Every Cidr value that can be constructed.
Cidrs == { Cidr(ip, n) : ip \in ValidIp, n \in ValidBitmask }

NoCidr == [ip |-> -1, bitmask |-> -1]

\* Cidr(ip=ip, bitmask=bitmask) with the validation of the arguments: the
\* exception raised ("none": the object is constructed) and the object.
cidr_init(ip, bitmask) ==
    IF ip < 0 \/ ip >= Pow2(AddrBits)
    THEN [exc |-> "ValueError", cidr |-> NoCidr]
    ELSE IF bitmask < 0 \/ bitmask > AddrBits
    THEN [exc |-> "ValueError", cidr |-> NoCidr]
    ELSE [exc |-> "none", cidr |-> Cidr(ip, bitmask)]

\* Cidr.bit(n): the n-th bit (1 = most significant).
bit(cidr, n) == (cidr.ip \div Pow2(AddrBits - n)) % 2

\* Cidr.__eq__
cidr_eq(x, y) == x.ip = y.ip /\ x.bitmask = y.bitmask

-----------------------------------------------------------------------------
(* binarytree.Node, as the code uses it *)

\* A node reference inside a tree is its path; NoNode is Python's None.
NoNode == <<2>>
RootNode == <<>>
EmptyTree == {}

value(node) == Len(node)
left(node) == Append(node, 0)
right(node) == Append(node, 1)

IsPrefix(m, x) == Len(m) <= Len(x) /\ SubSeq(x, 1, Len(m)) = m

\* node.left is not None / node.right is not None
HasLeft(T, node) == left(node) \in T
HasRight(T, node) == right(node) \in T
IsLeaf(T, node) == ~HasLeft(T, node) /\ ~HasRight(T, node)

\* The child slot's content: a node reference or None.
LeftOf(T, node) == IF HasLeft(T, node) THEN left(node) ELSE NoNode
RightOf(T, node) == IF HasRight(T, node) THEN right(node) ELSE NoNode

\* child slot = None: the subtree below is dropped.
Detach(T, child) == { x \in T : ~IsPrefix(child, x) }

\* node.left = None; node.right = None
ClearChildren(T, node) == Detach(Detach(T, left(node)), right(node))

\* child slot = Node(depth)
Attach(T, child) == T \cup {child}

\* Node.leaf_count
RECURSIVE leaf_count(_, _)
leaf_count(T, node) ==
    IF IsLeaf(T, node) THEN 1
    ELSE (IF HasLeft(T, node) THEN leaf_count(T, left(node)) ELSE 0)
       + (IF HasRight(T, node) THEN leaf_count(T, right(node)) ELSE 0)

\* Node.clone(): a deep copy, node by node.
RECURSIVE node_clone(_, _)
node_clone(T, node) ==
    {node}
    \cup (IF HasLeft(T, node) THEN node_clone(T, left(node)) ELSE {})
    \cup (IF HasRight(T, node) THEN node_clone(T, right(node)) ELSE {})

\* Node.equals(other): same values and same shape, recursively.
RECURSIVE node_equals(_, _, _, _)
node_equals(T, n, U, m) ==
    /\ value(n) = value(m)
    /\ HasLeft(T, n) = HasLeft(U, m)
    /\ HasRight(T, n) = HasRight(U, m)
    /\ (HasLeft(T, n) /\ HasLeft(U, m)) => node_equals(T, left(n), U, left(m))
    /\ (HasRight(T, n) /\ HasRight(U, m)) => node_equals(T, right(n), U, right(m))

-----------------------------------------------------------------------------
(* CidrSet: the recursive helpers, on a tree *)

\* A variant of _contains without the "bottom of the cidr" base case: a node
\* at the cidr's depth that is not a leaf counts as covered.
RECURSIVE contains_rec_nobottom(_, _, _)
contains_rec_nobottom(T, node, cidr) ==
    IF IsLeaf(T, node) \/ cidr.bitmask = value(node) THEN TRUE
    ELSE IF bit(cidr, value(node) + 1) = 0
         THEN HasLeft(T, node) /\ contains_rec_nobottom(T, left(node), cidr)
         ELSE HasRight(T, node) /\ contains_rec_nobottom(T, right(node), cidr)

\* CidrSet._contains
RECURSIVE contains_rec(_, _, _)
contains_rec(T, node, cidr) ==
    IF IsLeaf(T, node) THEN TRUE
    ELSE IF cidr.bitmask = value(node) THEN FALSE
    ELSE LET depth == value(node) + 1
             b == bit(cidr, depth)
         IN IF b = 0
            THEN IF ~HasLeft(T, node) THEN FALSE
                 ELSE contains_rec(T, left(node), cidr)
            ELSE IF ~HasRight(T, node) THEN FALSE
                 ELSE contains_rec(T, right(node), cidr)

\* The collapse check of _add (and of __add__'s T6): both children are leaves.
BothChildrenLeaves(T, node) ==
    /\ HasLeft(T, node) /\ HasRight(T, node)
    /\ IsLeaf(T, left(node))
    /\ IsLeaf(T, right(node))

\* A variant of Collapse that never merges two leaf children.
CollapseNever(T, node) == T

Collapse(T, node) ==
    IF BothChildrenLeaves(T, node) THEN ClearChildren(T, node) ELSE T

\* A variant of _add whose base case keeps the children found at the cidr's
\* depth.
RECURSIVE add_rec_keep(_, _, _, _)
add_rec_keep(T, node, newnode, cidr) ==
    IF cidr.bitmask = value(node) THEN T
    ELSE IF ~newnode /\ IsLeaf(T, node) THEN T
    ELSE LET child == IF bit(cidr, value(node) + 1) = 0
                      THEN left(node) ELSE right(node)
             created == child \notin T
             T1 == IF created THEN Attach(T, child) ELSE T
         IN Collapse(add_rec_keep(T1, child, created, cidr), node)

\* A variant of _add without the collapse check after the recursion.
RECURSIVE add_rec_nocollapse(_, _, _, _)
add_rec_nocollapse(T, node, newnode, cidr) ==
    IF cidr.bitmask = value(node) THEN ClearChildren(T, node)
    ELSE IF ~newnode /\ IsLeaf(T, node) THEN T
    ELSE LET child == IF bit(cidr, value(node) + 1) = 0
                      THEN left(node) ELSE right(node)
             created == child \notin T
             T1 == IF created THEN Attach(T, child) ELSE T
         IN add_rec_nocollapse(T1, child, created, cidr)

\* A variant of _add without the base case for an existing leaf that
\* already includes the cidr.
RECURSIVE add_rec_noleaf(_, _, _, _)
add_rec_noleaf(T, node, newnode, cidr) ==
    IF cidr.bitmask = value(node) THEN ClearChildren(T, node)
    ELSE LET child == IF bit(cidr, value(node) + 1) = 0
                      THEN left(node) ELSE right(node)
             created == child \notin T
             T1 == IF created THEN Attach(T, child) ELSE T
         IN Collapse(add_rec_noleaf(T1, child, created, cidr), node)

\* CidrSet._add
RECURSIVE add_rec(_, _, _, _)
add_rec(T, node, newnode, cidr) ==
    IF cidr.bitmask = value(node) THEN ClearChildren(T, node)
    ELSE IF ~newnode /\ IsLeaf(T, node) THEN T
    ELSE LET depth == value(node) + 1
             b == bit(cidr, depth)
             child == IF b = 0 THEN left(node) ELSE right(node)
             created == child \notin T
             T1 == IF created THEN Attach(T, child) ELSE T
             T2 == add_rec(T1, child, created, cidr)
         IN Collapse(T2, node)

RECURSIVE remove_rec(_, _, _)

\* A variant of the branch of _remove that deletes the child but never
\* propagates the delete upward.
remove_branch_noprop(T, node, cidr, child, sibling) ==
    IF child \notin T /\ sibling \in T
    THEN [t |-> T, del |-> FALSE]
    ELSE LET T1 == IF child \notin T
                   THEN Attach(Attach(T, left(node)), right(node))
                   ELSE T
             r == remove_rec(T1, child, cidr)
         IN IF r.del
            THEN [t |-> Detach(r.t, child), del |-> FALSE]
            ELSE [t |-> r.t, del |-> FALSE]

\* One branch of _remove: the child the bit selects, and its sibling.
remove_branch(T, node, cidr, child, sibling) ==
    IF child \notin T /\ sibling \in T
    THEN [t |-> T, del |-> FALSE]                   \* cidr is not in this set
    ELSE LET T1 == IF child \notin T
                   THEN Attach(Attach(T, left(node)), right(node))  \* expansion
                   ELSE T
             r == remove_rec(T1, child, cidr)
         IN IF r.del
            THEN LET T2 == Detach(r.t, child)
                 IN [t |-> T2, del |-> sibling \notin T2]
            ELSE [t |-> r.t, del |-> FALSE]

\* A variant of _remove that goes down the left branch whatever the bit is.
remove_rec_left(T, node, cidr) ==
    IF cidr.bitmask = value(node) THEN [t |-> T, del |-> TRUE]
    ELSE remove_branch(T, node, cidr, left(node), right(node))

\* CidrSet._remove: the tree afterwards, and whether the node is to be removed.
remove_rec(T, node, cidr) ==
    IF cidr.bitmask = value(node) THEN [t |-> T, del |-> TRUE]
    ELSE LET depth == value(node) + 1
             b == bit(cidr, depth)
         IN IF b = 0
            THEN remove_branch(T, node, cidr, left(node), right(node))
            ELSE remove_branch(T, node, cidr, right(node), left(node))

\* A variant of __iter__ that goes into the right child without moving ip
\* on to the right half.
RECURSIVE iter_rec_sameip(_, _, _)
iter_rec_sameip(T, node, ip) ==
    IF IsLeaf(T, node) THEN << Cidr(ip, value(node)) >>
    ELSE (IF HasLeft(T, node) THEN iter_rec_sameip(T, left(node), ip)
          ELSE << >>)
      \o (IF HasRight(T, node) THEN iter_rec_sameip(T, right(node), ip)
          ELSE << >>)

\* CidrSet.__iter__(node, ip): the Cidr values, in the order yielded.
RECURSIVE iter_rec(_, _, _)
iter_rec(T, node, ip) ==
    IF IsLeaf(T, node) THEN << Cidr(ip, value(node)) >>
    ELSE (IF HasLeft(T, node) THEN iter_rec(T, left(node), ip) ELSE << >>)
      \o (IF HasRight(T, node)
          THEN iter_rec(T, right(node),
                        ip + Pow2(AddrBits - value(right(node))))
          ELSE << >>)

-----------------------------------------------------------------------------
(* CidrSet: the methods, on the tree of the object (EmptyTree: root is None) *)

\* CidrSet.contains
contains(T, cidr) ==
    IF T = EmptyTree THEN FALSE ELSE contains_rec(T, RootNode, cidr)

\* CidrSet.add: the tree of the object afterwards.
add(T, cidr) ==
    IF T = EmptyTree
    THEN add_rec({RootNode}, RootNode, TRUE, cidr)
    ELSE add_rec(T, RootNode, FALSE, cidr)

\* CidrSet.remove: the tree the root Node holds afterwards, and whether
\* self.root is set to None.
remove(T, cidr) ==
    IF T = EmptyTree THEN [t |-> T, del |-> FALSE]
    ELSE remove_rec(T, RootNode, cidr)

\* CidrSet.extend: add several items at once, in order.
RECURSIVE extend(_, _)
extend(T, args) ==
    IF args = << >> THEN T ELSE extend(add(T, Head(args)), Tail(args))

\* CidrSet.size
size(T) == IF T = EmptyTree THEN 0 ELSE leaf_count(T, RootNode)

\* CidrSet.__iter__
iter(T) == IF T = EmptyTree THEN << >> ELSE iter_rec(T, RootNode, 0)

\* A variant of __eq__ that takes a set whose root is None to equal nothing.
eq_none_unequal(T, U) ==
    IF T = EmptyTree \/ U = EmptyTree THEN FALSE
    ELSE node_equals(T, RootNode, U, RootNode)

\* CidrSet.__eq__ on two CidrSet operands.
eq(T, U) ==
    IF T = EmptyTree /\ U = EmptyTree THEN TRUE
    ELSE IF T # EmptyTree /\ U # EmptyTree
         THEN node_equals(T, RootNode, U, RootNode)
         ELSE FALSE

-----------------------------------------------------------------------------
(* CidrSet.__add__ and CidrSet.__sub__: the simultaneous postorder traversal *)

(* The state of a traversal: T is the tree of a (the clone of self that is   *)
(* changed and returned), B the tree of b; b_p, a_p, b_q, a_created are node *)
(* references (NoNode: None) and the stacks hold node references; goto is    *)
(* the label the next pass of the while loop starts at, "return" once the    *)
(* loop has returned a, "error" once an attribute of None was used.  Nodes   *)
(* are compared by identity in the code; a path names one Node here because  *)
(* B never changes and every Node the traversal puts into T is the one       *)
(* a_created is set to.                                                      *)
Traversal(T, B) ==
    [T |-> T, B |-> B,
     b_stack |-> << >>, b_p |-> RootNode, b_q |-> NoNode,
     a_stack |-> << >>, a_p |-> RootNode, a_created |-> NoNode,
     goto |-> "T2"]

Raise(st) == [st EXCEPT !.goto = "error"]

Pop(stack) == SubSeq(stack, 1, Len(stack) - 1)
Top(stack) == stack[Len(stack)]

\* a_is_leaf = a_p != a_created and a_p.left is None and a_p.right is None
a_is_leaf(st) == st.a_p # st.a_created /\ IsLeaf(st.T, st.a_p)

\* Evaluating a_is_leaf uses an attribute of None.
a_is_leaf_raises(st) == st.a_p # st.a_created /\ st.a_p = NoNode

\* __add__, T3 [Stack <= P.]
add_T3(st) ==
    LET pushed == [st EXCEPT !.b_stack = Append(@, st.b_p),
                             !.a_stack = Append(@, st.a_p),
                             !.goto = "T2"]
        b_is_leaf == IsLeaf(st.B, st.b_p)
    IN IF a_is_leaf_raises(st) THEN Raise(pushed)
       ELSE IF b_is_leaf # a_is_leaf(st)
       THEN IF b_is_leaf /\ st.a_p = NoNode THEN Raise(pushed)
            ELSE [pushed EXCEPT
                    !.T = IF b_is_leaf THEN ClearChildren(@, st.a_p) ELSE @,
                    !.b_p = NoNode,
                    !.a_p = NoNode]
       ELSE IF ~HasLeft(st.B, st.b_p)
       THEN [pushed EXCEPT !.b_p = NoNode, !.a_p = NoNode]
       ELSE IF st.a_p = NoNode THEN Raise(pushed)
       ELSE LET make == ~HasLeft(st.T, st.a_p)
            IN [pushed EXCEPT
                    !.T = IF make THEN Attach(@, left(st.a_p)) ELSE @,
                    !.a_created = IF make THEN left(st.a_p) ELSE @,
                    !.b_p = left(st.b_p),
                    !.a_p = left(st.a_p)]

\* A variant of T6 without the collapse check.
add_T6_nocollapse(st) ==
    IF st.a_p = NoNode THEN Raise(st)
    ELSE [st EXCEPT !.b_q = st.b_p, !.goto = "T4"]

\* __add__, T6 [Visit P.]
add_T6(st) ==
    IF st.a_p = NoNode THEN Raise(st)
    ELSE [st EXCEPT !.T = Collapse(@, st.a_p),
                    !.b_q = st.b_p,
                    !.goto = "T4"]

\* A variant of T5 that never goes into the right branch.
add_T5_noright(st) ==
    IF a_is_leaf_raises(st) THEN Raise(st) ELSE add_T6(st)

\* __add__, T5 [Right branch done?]
add_T5(st) ==
    IF a_is_leaf_raises(st) THEN Raise(st)
    ELSE IF a_is_leaf(st) \/ ~HasRight(st.B, st.b_p) \/ right(st.b_p) = st.b_q
    THEN add_T6(st)
    ELSE IF st.a_p = NoNode THEN Raise(st)
    ELSE LET make == ~HasRight(st.T, st.a_p)
         IN [st EXCEPT
                !.b_stack = Append(@, st.b_p),
                !.b_p = right(st.b_p),
                !.a_stack = Append(@, st.a_p),
                !.T = IF make THEN Attach(@, right(st.a_p)) ELSE @,
                !.a_created = IF make THEN right(st.a_p) ELSE @,
                !.a_p = right(st.a_p),
                !.goto = "T2"]

\* __add__, T4 [P <= Stack.]
add_T4(st) ==
    IF Len(st.b_stack) = 0 THEN [st EXCEPT !.goto = "return"]
    ELSE add_T5([st EXCEPT !.b_p = Top(st.b_stack), !.b_stack = Pop(@),
                           !.a_p = Top(st.a_stack), !.a_stack = Pop(@)])

\* __add__: one pass of the body of the while loop, from label st.goto.
add_pass(st) ==
    IF st.goto = "T2"
    THEN IF st.b_p = NoNode THEN add_T4(st) ELSE add_T3(st)
    ELSE add_T4(st)

\* __add__: the while loop, to its return (or to the error raised).
RECURSIVE add_loop(_)
add_loop(st) ==
    IF st.goto \in {"return", "error"} THEN st ELSE add_loop(add_pass(st))

\* CidrSet.clone, on the tree of the object.
clone(T) == IF T = EmptyTree THEN EmptyTree ELSE node_clone(T, RootNode)

\* CidrSet.__add__ on two CidrSet operands: the tree of the returned set, and
\* whether an error was raised instead.
op_add(A, B) ==
    IF size(A) = 0 THEN [tree |-> clone(B), raised |-> FALSE]
    ELSE IF size(B) = 0 THEN [tree |-> clone(A), raised |-> FALSE]
    ELSE LET st == add_loop(Traversal(clone(A), B))
         IN [tree |-> st.T, raised |-> st.goto = "error"]

\* __sub__, T3 [Stack <= P.]
sub_T3(st) ==
    LET pushed == [st EXCEPT !.b_stack = Append(@, st.b_p),
                             !.a_stack = Append(@, st.a_p),
                             !.goto = "T2"]
        expand == HasLeft(st.B, st.b_p) \/ HasRight(st.B, st.b_p)
    IN IF st.a_p = NoNode THEN Raise(pushed)
       ELSE LET T1 == IF expand
                      THEN Attach(Attach(st.T, left(st.a_p)), right(st.a_p))
                      ELSE st.T
            IN [pushed EXCEPT !.T = T1,
                              !.b_p = LeftOf(st.B, st.b_p),
                              !.a_p = LeftOf(T1, st.a_p)]

\* The "check for node removal" of __sub__ for one child slot of a node of a
\* (a_child) and the matching child of b (b_child).
sub_prune(T, B, a_child, b_child) ==
    IF a_child \in T /\ b_child \in B
    THEN IF IsLeaf(B, b_child)
         THEN Detach(T, a_child)
         ELSE IF ~HasLeft(B, b_child) /\ HasRight(B, b_child)
         THEN IF HasLeft(B, right(b_child)) /\ HasRight(B, right(b_child))
              THEN Detach(T, right(a_child))
              ELSE T
         ELSE IF HasLeft(B, b_child) /\ ~HasRight(B, b_child)
         THEN IF HasLeft(B, left(b_child)) /\ HasRight(B, left(b_child))
              THEN Detach(T, left(a_child))
              ELSE T
         ELSE T
    ELSE T

\* A variant of T6 that does not record the node visited in b_q.
sub_T6_noq(st) ==
    IF st.a_p = NoNode THEN Raise(st)
    ELSE LET T1 == sub_prune(st.T, st.B, left(st.a_p), left(st.b_p))
             T2 == sub_prune(T1, st.B, right(st.a_p), right(st.b_p))
         IN [st EXCEPT !.T = T2, !.goto = "T4"]

\* __sub__, T6 [Visit P.]
sub_T6(st) ==
    IF st.a_p = NoNode THEN Raise(st)
    ELSE LET T1 == sub_prune(st.T, st.B, left(st.a_p), left(st.b_p))
             T2 == sub_prune(T1, st.B, right(st.a_p), right(st.b_p))
         IN [st EXCEPT !.T = T2, !.b_q = st.b_p, !.goto = "T4"]

\* __sub__, T5 [Right branch done?]
sub_T5(st) ==
    IF ~HasRight(st.B, st.b_p) \/ right(st.b_p) = st.b_q
    THEN sub_T6(st)
    ELSE IF st.a_p = NoNode THEN Raise(st)
    ELSE [st EXCEPT !.b_stack = Append(@, st.b_p),
                    !.b_p = right(st.b_p),
                    !.a_stack = Append(@, st.a_p),
                    !.a_p = RightOf(st.T, st.a_p),
                    !.goto = "T2"]

\* __sub__, T4 [P <= Stack.]: with the stack empty, the removal check for
\* the root (the root of a is a child slot of the CidrSet), then return a.
sub_T4(st) ==
    IF Len(st.b_stack) = 0
    THEN [st EXCEPT !.T = sub_prune(@, st.B, RootNode, RootNode),
                    !.goto = "return"]
    ELSE sub_T5([st EXCEPT !.b_p = Top(st.b_stack), !.b_stack = Pop(@),
                           !.a_p = Top(st.a_stack), !.a_stack = Pop(@)])

\* __sub__: one pass of the body of the while loop, from label st.goto.
sub_pass(st) ==
    IF st.goto = "T2"
    THEN IF st.b_p = NoNode THEN sub_T4(st) ELSE sub_T3(st)
    ELSE sub_T4(st)

\* __sub__: the while loop, to its return (or to the error raised).
RECURSIVE sub_loop(_)
sub_loop(st) ==
    IF st.goto \in {"return", "error"} THEN st ELSE sub_loop(sub_pass(st))

\* CidrSet.__sub__ on two CidrSet operands: the tree of the returned set, and
\* whether an error was raised instead.
op_sub(A, B) ==
    IF size(A) = 0 \/ size(B) = 0 THEN [tree |-> clone(A), raised |-> FALSE]
    ELSE LET st == sub_loop(Traversal(clone(A), B))
         IN [tree |-> st.T, raised |-> st.goto = "error"]

-----------------------------------------------------------------------------
(* The operators of CidrSet, applied to a second operand of any type *)

(* A second operand is a record: its type and, for a CidrSet, its tree.     *)
(* exc is the exception an operator raises ("none": it returns).  A value   *)
(* that is not a CidrSet has no size, clone or root attribute.              *)
CidrSetOperand(T) == [type |-> "CidrSet", tree |-> T]

\* A variant of the operand check that lets every operand through.
operand_check_skipped(b) == "none"

\* if type(b) is not CidrSet: raise ValueError(...)
operand_check(b) == IF b.type # "CidrSet" THEN "ValueError" ELSE "none"

\* CidrSet.__add__
add_operator(A, b) ==
    IF operand_check(b) # "none"
    THEN [tree |-> EmptyTree, exc |-> operand_check(b)]
    ELSE IF b.type # "CidrSet"
    THEN [tree |-> EmptyTree, exc |-> "AttributeError"]
    ELSE LET res == op_add(A, b.tree)
         IN [tree |-> res.tree,
             exc |-> IF res.raised THEN "AttributeError" ELSE "none"]

\* CidrSet.__sub__
sub_operator(A, b) ==
    IF operand_check(b) # "none"
    THEN [tree |-> EmptyTree, exc |-> operand_check(b)]
    ELSE IF b.type # "CidrSet"
    THEN [tree |-> EmptyTree, exc |-> "AttributeError"]
    ELSE LET res == op_sub(A, b.tree)
         IN [tree |-> res.tree,
             exc |-> IF res.raised THEN "AttributeError" ELSE "none"]

\* CidrSet.__eq__
eq_operator(A, b) ==
    IF operand_check(b) # "none"
    THEN [val |-> FALSE, exc |-> operand_check(b)]
    ELSE IF b.type # "CidrSet"
    THEN [val |-> FALSE, exc |-> "AttributeError"]
    ELSE [val |-> eq(A, b.tree), exc |-> "none"]

-----------------------------------------------------------------------------
(* The objects and the heap *)

\* The CidrSet objects of a run: a and b are the caller's sets, r holds the
\* result of the last a + b or a - b.
Objs == {"a", "b", "r"}

\* Python's None, as a root reference.
None == 0
Refs == 1 .. Cardinality(Objs)

\* The tree of object o (EmptyTree when o.root is None).
TreeOf(o) == IF root[o] = None THEN EmptyTree ELSE heap[root[o]]

\* A reference for a Node that object o is about to hold: the least one no
\* other object holds.
NewRef(o) ==
    CHOOSE i \in Refs :
        /\ \A q \in Objs \ {o} : root[q] # i
        /\ \A j \in 1 .. (i - 1) : \E q \in Objs \ {o} : root[q] = j

\* Trees no object refers to any more are reclaimed.
Reclaim(rt, hp) ==
    [i \in Refs |-> IF \E q \in Objs : rt[q] = i THEN hp[i] ELSE EmptyTree]

\* o.add(cidr), on the heap: a None root is replaced by a new Node(0), an
\* existing root Node is changed in place.
DoAdd(o, cidr) ==
    LET i == IF root[o] = None THEN NewRef(o) ELSE root[o]
    IN /\ root' = [root EXCEPT ![o] = i]
       /\ heap' = [heap EXCEPT ![i] = add(TreeOf(o), cidr)]

\* o.remove(cidr), on the heap: the root Node is changed in place, and
\* self.root becomes None when _remove returns True.
DoRemove(o, cidr) ==
    IF root[o] = None
    THEN UNCHANGED <<root, heap>>
    ELSE LET res == remove(TreeOf(o), cidr)
             rt == IF res.del THEN [root EXCEPT ![o] = None] ELSE root
         IN /\ root' = rt
            /\ heap' = Reclaim(rt, [heap EXCEPT ![root[o]] = res.t])

NoCall == [op |-> "new", obj |-> "a", ret |-> "ok"]

\* The names Cidr objects are bound to, and the state with none bound.
CidrNames == {"x", "y"}
NoArgs == [ip |-> -2, bitmask |-> -2]
NoCidrs ==
    /\ made = [v \in CidrNames |-> NoCidr]
    /\ given = [v \in CidrNames |-> NoArgs]

\* No a + b or a - b is under way.
NoTraversal == [goto |-> "none"]

Init ==
    /\ root = [o \in Objs |-> None]
    /\ heap = [i \in Refs |-> EmptyTree]
    /\ last = NoCall
    /\ arg = NoCidr
    /\ prev = EmptyTree
    /\ NoCidrs
    /\ trav = NoTraversal

-----------------------------------------------------------------------------
(* One CidrSet under add and remove calls *)

AddCall(cidr) ==
    /\ DoAdd("a", cidr)
    /\ last' = [op |-> "add", obj |-> "a", ret |-> "ok"]
    /\ arg' = cidr
    /\ prev' = TreeOf("a")
    /\ UNCHANGED <<made, given, trav>>

RemoveCall(cidr) ==
    /\ DoRemove("a", cidr)
    /\ last' = [op |-> "remove", obj |-> "a", ret |-> "ok"]
    /\ arg' = cidr
    /\ prev' = TreeOf("a")
    /\ UNCHANGED <<made, given, trav>>

Next ==
    \/ \E cidr \in Cidrs : AddCall(cidr)
    \/ \E cidr \in Cidrs : RemoveCall(cidr)

Spec == Init /\ [][Next]_vars

-----------------------------------------------------------------------------
(* a + b and a - b on sets built through add and remove *)

\* The tree of a CidrSet after remove(cidr).
after_remove(T, cidr) ==
    LET res == remove(T, cidr) IN IF res.del THEN EmptyTree ELSE res.t

\* The trees reachable from those of S by add and remove calls.
RECURSIVE BuiltFrom(_)
BuiltFrom(S) ==
    LET more == S \cup { add(T, cidr) : T \in S, cidr \in Cidrs }
                  \cup { after_remove(T, cidr) : T \in S, cidr \in Cidrs }
    IN IF more = S THEN S ELSE BuiltFrom(more)

\* The trees of the sets that add and remove calls build from CidrSet().
BuiltSets == BuiltFrom({EmptyTree})

\* The operands: a and b are any two sets built through add and remove.
InitOps ==
    /\ \E A \in BuiltSets, B \in BuiltSets :
          /\ root = [o \in Objs |->
                        IF o = "a" /\ A # EmptyTree THEN 1
                        ELSE IF o = "b" /\ B # EmptyTree
                             THEN (IF A = EmptyTree THEN 1 ELSE 2)
                             ELSE None]
          /\ heap = [i \in Refs |->
                        IF i = 1 THEN (IF A # EmptyTree THEN A ELSE B)
                        ELSE IF i = 2 /\ A # EmptyTree THEN B
                        ELSE EmptyTree]
    /\ last = NoCall
    /\ arg = NoCidr
    /\ prev = EmptyTree
    /\ NoCidrs
    /\ trav = NoTraversal

\* r = <result of an operator>: r is bound to a new CidrSet holding the tree,
\* or stays unbound when the operator raised.
BindResult(op, res) ==
    LET i == IF res.raised \/ res.tree = EmptyTree THEN None ELSE NewRef("r")
        rt == [root EXCEPT !["r"] = i]
        hp == IF i = None THEN heap ELSE [heap EXCEPT ![i] = res.tree]
    IN /\ root' = rt
       /\ heap' = Reclaim(rt, hp)
       /\ last' = [op |-> op, obj |-> "r",
                   ret |-> IF res.raised THEN "error" ELSE "ok"]
       /\ UNCHANGED <<arg, prev, made, given, trav>>

\* r = a + b
UnionCall ==
    /\ last.op = "new"
    /\ BindResult("union", op_add(TreeOf("a"), TreeOf("b")))

\* r = a - b
DiffCall ==
    /\ last.op = "new"
    /\ BindResult("diff", op_sub(TreeOf("a"), TreeOf("b")))

NextOps ==
    \/ UnionCall
    \/ DiffCall

SpecOps == InitOps /\ [][NextOps]_vars

-----------------------------------------------------------------------------
(* A CidrSet and its clone *)

\* A variant of clone_of that hands out the root Node of self instead of a
\* copy of it.
clone_shared(src) == [ref |-> root[src], tree |-> TreeOf(src), fresh |-> FALSE]

\* src.clone(): the root of the new CidrSet is None, or a new Node holding a
\* copy of the tree of src.
clone_of(src) ==
    IF root[src] = None
    THEN [ref |-> None, tree |-> EmptyTree, fresh |-> FALSE]
    ELSE [ref |-> None, tree |-> clone(TreeOf(src)), fresh |-> TRUE]

\* dst = src.clone()
CloneCall(src, dst) ==
    LET c == clone_of(src)
        i == IF c.fresh THEN NewRef(dst) ELSE c.ref
        rt == [root EXCEPT ![dst] = i]
        hp == IF i = None THEN heap ELSE [heap EXCEPT ![i] = c.tree]
    IN /\ root' = rt
       /\ heap' = Reclaim(rt, hp)
       /\ last' = [op |-> "clone", obj |-> dst, ret |-> "ok"]
       /\ arg' = NoCidr
       /\ prev' = EmptyTree
       /\ UNCHANGED <<made, given, trav>>

\* a.add(cidr), with no record of the argument.
AddChange(cidr) ==
    /\ DoAdd("a", cidr)
    /\ last' = [op |-> "change", obj |-> "a", ret |-> "ok"]
    /\ arg' = NoCidr
    /\ prev' = EmptyTree
    /\ UNCHANGED <<made, given, trav>>

\* a.remove(cidr), with no record of the argument.
RemoveChange(cidr) ==
    /\ DoRemove("a", cidr)
    /\ last' = [op |-> "change", obj |-> "a", ret |-> "ok"]
    /\ arg' = NoCidr
    /\ prev' = EmptyTree
    /\ UNCHANGED <<made, given, trav>>

\* a is changed by add and remove calls; at any time b = a.clone() (a is the
\* original) or a = b.clone() (a is the clone).
NextClone ==
    \/ \E cidr \in Cidrs : AddChange(cidr)
    \/ \E cidr \in Cidrs : RemoveChange(cidr)
    \/ CloneCall("a", "b")
    \/ CloneCall("b", "a")

SpecClone == Init /\ [][NextClone]_vars

-----------------------------------------------------------------------------
(* a + b and a - b, one pass of the while loop at a time *)

\* The traversal at T1 [Initialize], with the passes of the loop counted.
StartLoop(T, B) == Traversal(T, B) @@ [passes |-> 0]

\* The call is over: r is bound to the result, or the error is raised, and
\* the local variables are gone.
EndLoop(op, res) ==
    LET i == IF res.raised \/ res.tree = EmptyTree THEN None ELSE NewRef("r")
        rt == [root EXCEPT !["r"] = i]
        hp == IF i = None THEN heap ELSE [heap EXCEPT ![i] = res.tree]
    IN /\ root' = rt
       /\ heap' = Reclaim(rt, hp)
       /\ last' = [op |-> op, obj |-> "r",
                   ret |-> IF res.raised THEN "error" ELSE "ok"]
       /\ trav' = NoTraversal
       /\ UNCHANGED <<arg, prev, made, given>>

\* The while loop is entered: the operator is running.
EnterLoop(op, T, B) ==
    /\ trav' = StartLoop(T, B)
    /\ last' = [op |-> op, obj |-> "r", ret |-> "running"]
    /\ UNCHANGED <<root, heap, arg, prev, made, given>>

\* r = a + b, up to the while loop: the early returns, the clone of self and
\* T1.
UnionStart ==
    /\ last.op = "new"
    /\ LET A == TreeOf("a")
           B == TreeOf("b")
       IN IF size(A) = 0
          THEN EndLoop("union", [tree |-> clone(B), raised |-> FALSE])
          ELSE IF size(B) = 0
          THEN EndLoop("union", [tree |-> clone(A), raised |-> FALSE])
          ELSE EnterLoop("union", clone(A), B)

\* r = a - b, up to the while loop.
DiffStart ==
    /\ last.op = "new"
    /\ LET A == TreeOf("a")
           B == TreeOf("b")
       IN IF size(A) = 0 \/ size(B) = 0
          THEN EndLoop("diff", [tree |-> clone(A), raised |-> FALSE])
          ELSE EnterLoop("diff", clone(A), B)

\* One pass of the body of a while loop; a pass that returns a, or that
\* raises, ends the call.
LoopPass(op, st) ==
    IF st.goto \in {"return", "error"}
    THEN EndLoop(op, [tree |-> st.T, raised |-> st.goto = "error"])
    ELSE /\ trav' = [st EXCEPT !.passes = @ + 1]
         /\ UNCHANGED <<root, heap, last, arg, prev, made, given>>

\* One pass of the while loop of __add__.
UnionPass ==
    /\ last.op = "union" /\ last.ret = "running"
    /\ LoopPass("union", add_pass(trav))

\* One pass of the while loop of __sub__.
DiffPass ==
    /\ last.op = "diff" /\ last.ret = "running"
    /\ LoopPass("diff", sub_pass(trav))

NextLoop ==
    \/ UnionStart
    \/ UnionPass
    \/ DiffStart
    \/ DiffPass

\* The interpreter keeps executing a call that has begun.
SpecLoop == InitOps /\ [][NextLoop]_vars /\ WF_vars(UnionPass) /\ WF_vars(DiffPass)

-----------------------------------------------------------------------------
(* The operators of a CidrSet with a second operand of any type *)

\* The types of the values tried as second operand.
OtherTypes == {"int", "NoneType", "Cidr"}

\* The second operands tried: values that are no CidrSet.
Operands == { [type |-> t] : t \in OtherTypes }

\* r = a <op> b for an operator that returns a CidrSet: r is bound to the
\* new CidrSet, or stays as it was when the operator raised.
OperatorCall(op, b, res) ==
    LET i == IF res.tree = EmptyTree THEN None ELSE NewRef("r")
        rt == [root EXCEPT !["r"] = i]
        hp == IF i = None THEN heap ELSE [heap EXCEPT ![i] = res.tree]
    IN /\ IF res.exc = "none"
          THEN root' = rt /\ heap' = Reclaim(rt, hp)
          ELSE UNCHANGED <<root, heap>>
       /\ last' = [op |-> op, obj |-> "r", other |-> b.type,
                   ret |-> IF res.exc = "none" THEN "ok" ELSE res.exc]
       /\ arg' = NoCidr
       /\ prev' = TreeOf("a")
       /\ UNCHANGED <<made, given, trav>>

\* r = a + b
AddOperand(b) == OperatorCall("union", b, add_operator(TreeOf("a"), b))

\* r = a - b
SubOperand(b) == OperatorCall("diff", b, sub_operator(TreeOf("a"), b))

\* a == b: ret is the value returned, or the exception.
EqOperand(b) ==
    LET res == eq_operator(TreeOf("a"), b)
    IN /\ last' = [op |-> "eq", obj |-> "a", other |-> b.type,
                   ret |-> IF res.exc # "none" THEN res.exc
                           ELSE IF res.val THEN "True" ELSE "False"]
       /\ arg' = NoCidr
       /\ prev' = TreeOf("a")
       /\ UNCHANGED <<root, heap, made, given, trav>>

\* a is built by add and remove calls, and used as the left operand.
NextOperand ==
    \/ \E cidr \in Cidrs : AddChange(cidr)
    \/ \E cidr \in Cidrs : RemoveChange(cidr)
    \/ \E b \in Operands : AddOperand(b)
    \/ \E b \in Operands : SubOperand(b)
    \/ \E b \in Operands : EqOperand(b)

SpecOperand == Init /\ [][NextOperand]_vars

-----------------------------------------------------------------------------
(* Cidr objects constructed from an address and a prefix length *)

\* The arguments tried: every valid one, and the nearest invalid ones.
TriedIp == -1 .. Pow2(AddrBits)
TriedBitmask == -1 .. (AddrBits + 1)

\* v = Cidr(ip=ip, bitmask=bitmask): when the constructor raises, v keeps
\* what it was bound to.
NewCidr(v, ip, bitmask) ==
    LET res == cidr_init(ip, bitmask)
    IN /\ made' = IF res.exc = "none"
                  THEN [made EXCEPT ![v] = res.cidr] ELSE made
       /\ given' = IF res.exc = "none"
                   THEN [given EXCEPT ![v] = [ip |-> ip, bitmask |-> bitmask]]
                   ELSE given
       /\ last' = [op |-> "Cidr", obj |-> v,
                   ret |-> IF res.exc = "none" THEN "ok" ELSE res.exc]
       /\ UNCHANGED <<root, heap, arg, prev, trav>>

NextCidr ==
    \E v \in CidrNames, ip \in TriedIp, bitmask \in TriedBitmask :
        NewCidr(v, ip, bitmask)

SpecCidr == Init /\ [][NextCidr]_vars

-----------------------------------------------------------------------------
(* What a tree means: the addresses it covers *)

\* The node that the leading n bits of address ip lead to.
PathOf(ip, n) == [k \in 1 .. n |-> (ip \div Pow2(AddrBits - k)) % 2]

\* The addresses a tree covers: those whose path from the root meets a leaf.
Members(T) ==
    { x \in ValidIp :
        \E n \in 0 .. AddrBits : PathOf(x, n) \in T /\ IsLeaf(T, PathOf(x, n)) }

\* The addresses matching a Cidr.
Range(cidr) ==
    { x \in ValidIp :
        x \div Pow2(AddrBits - cidr.bitmask)
            = cidr.ip \div Pow2(AddrBits - cidr.bitmask) }

\* A tree of Nodes: empty, or the root with every node's parent present, no
\* node deeper than the address width.
IsTree(T) ==
    \A x \in T :
        /\ Len(x) <= AddrBits
        /\ Len(x) > 0 => SubSeq(x, 1, Len(x) - 1) \in T

\* No node has two children that are both leaves.
Canonical(T) == \A node \in T : ~BothChildrenLeaves(T, node)

-----------------------------------------------------------------------------
(* Claims about one CidrSet under add and remove (specification Spec) *)

\* C1: after any sequence of add and remove calls on an empty CidrSet the
\* trie is canonical: it is a tree in which no node has two children that
\* are both leaves.
C1_Canonical ==
    /\ IsTree(TreeOf("a"))
    /\ Canonical(TreeOf("a"))
    /\ root["a"] # None => RootNode \in TreeOf("a")

\* C1 witness: an add has just collapsed two levels of leaves into the root.
C1_Witness ==
    /\ last.op = "add"
    /\ Cardinality(prev) >= 4
    /\ TreeOf("a") = {RootNode}

\* C2: contains(p) is true exactly when every address matching p is covered
\* by the set (false for partial coverage, false on the empty set).
C2_ContainsIffCovered ==
    \A cidr \in Cidrs :
        contains(TreeOf("a"), cidr) <=> Range(cidr) \subseteq Members(TreeOf("a"))

\* C2 witness: a set that covers one Cidr fully and another only partially.
C2_Witness ==
    \E c1, c2 \in Cidrs :
        /\ contains(TreeOf("a"), c1)
        /\ ~contains(TreeOf("a"), c2)
        /\ Range(c2) \cap Members(TreeOf("a")) # {}

\* The Cidr q lies under p: it is at least as long and agrees with p on p's
\* leading bits.
Under(q, p) ==
    /\ q.bitmask >= p.bitmask
    /\ q.ip \div Pow2(AddrBits - p.bitmask) = p.ip \div Pow2(AddrBits - p.bitmask)

\* C3: immediately after add(p), contains(p) is true, and so is contains(q)
\* for every q at least as long as p that agrees with p on p's leading bits.
C3_AddThenContains ==
    last.op = "add" =>
        /\ contains(TreeOf("a"), arg)
        /\ \A q \in Cidrs : Under(q, arg) => contains(TreeOf("a"), q)

\* C3 witness: an add of a Cidr that was only partially covered before, over
\* finer structure.
C3_Witness ==
    /\ last.op = "add"
    /\ arg.bitmask < AddrBits
    /\ ~contains(prev, arg)
    /\ Range(arg) \cap Members(prev) # {}
    /\ contains(TreeOf("a"), arg)

\* C4: add(p) on an empty CidrSet followed by remove(p) leaves the set empty:
\* root is None, size() is 0 and the enumeration yields nothing.
C4_RemoveUndoesAdd ==
    [][ ( /\ last.op = "add" /\ prev = EmptyTree
          /\ last'.op = "remove" /\ arg' = arg )
        => ( /\ root'["a"] = None
             /\ size(TreeOf("a"))' = 0
             /\ iter(TreeOf("a"))' = << >> ) ]_vars

\* C4 witness: the longest Cidr was added to the empty set and removed again.
C4_Witness ==
    /\ last.op = "remove"
    /\ arg.bitmask = AddrBits
    /\ prev = add(EmptyTree, arg)
    /\ root["a"] = None

\* The leaves of a tree.
Leaves(T) == { node \in T : IsLeaf(T, node) }

\* The address a bit path spells (left edge 0, right edge 1), followed by
\* zero bits.
RECURSIVE AddressOf(_)
AddressOf(node) ==
    IF node = << >> THEN 0
    ELSE AddressOf(SubSeq(node, 1, Len(node) - 1))
         + node[Len(node)] * Pow2(AddrBits - Len(node))

\* C11: the enumeration of a set built by add and remove yields exactly one
\* Cidr per leaf of the trie, with the leaf's depth as bitmask and the leaf's
\* bit path followed by zero bits as ip, in strictly ascending ip order.
C11_IterLeavesAscending ==
    LET T == TreeOf("a")
        s == iter(T)
    IN /\ Len(s) = Cardinality(Leaves(T))
       /\ \A leaf \in Leaves(T) :
              \E i \in 1 .. Len(s) :
                  s[i] = [ip |-> AddressOf(leaf), bitmask |-> value(leaf)]
       /\ \A i \in 1 .. (Len(s) - 1) : s[i].ip < s[i + 1].ip

\* C11 witness: a set enumerated as several blocks of different lengths, the
\* last one in a right subtree below a right subtree.
C11_Witness ==
    LET s == iter(TreeOf("a"))
    IN /\ Len(s) >= 2
       /\ s[1].bitmask # s[Len(s)].bitmask
       /\ <<1, 1>> \in Leaves(TreeOf("a"))

\* The block one bit shorter that holds a Cidr, and the other half of it.
Parent(cidr) == Cidr(cidr.ip, cidr.bitmask - 1)
Sibling(cidr) ==
    LET half == Pow2(AddrBits - cidr.bitmask)
    IN [ip |-> IF bit(cidr, cidr.bitmask) = 0
               THEN cidr.ip + half ELSE cidr.ip - half,
        bitmask |-> cidr.bitmask]

\* The maximal CIDR blocks of a set S of addresses: the blocks inside S
\* whose parent block is not inside S.
MaximalBlocks(S) ==
    { c \in Cidrs :
        /\ Range(c) \subseteq S
        /\ c.bitmask > 0 => ~(Range(Parent(c)) \subseteq S) }

\* The sequence s lists exactly the maximal blocks of S, in ascending order.
ListsBlocksOf(s, S) ==
    /\ { s[i] : i \in 1 .. Len(s) } = MaximalBlocks(S)
    /\ Len(s) = Cardinality(MaximalBlocks(S))
    /\ \A i \in 1 .. (Len(s) - 1) : s[i].ip < s[i + 1].ip

\* C15: after s.add(p) the enumeration of s is exactly the list of maximal
\* CIDR blocks covering (addresses of s before the call) union (addresses of
\* p); adding a block to the set that holds only its sibling yields the
\* single parent block, one bit shorter.
C15_AddExact ==
    last.op = "add" =>
        /\ Members(TreeOf("a")) = Members(prev) \cup Range(arg)
        /\ ListsBlocksOf(iter(TreeOf("a")), Members(prev) \cup Range(arg))
        /\ (arg.bitmask > 0 /\ iter(prev) = << Sibling(arg) >>)
              => iter(TreeOf("a")) = << Parent(arg) >>

\* C15 witness: the add of a block whose sibling was in the set, over finer
\* structure below the block, merged the two into their parent.
C15_Witness ==
    /\ last.op = "add"
    /\ arg.bitmask > 0 /\ arg.bitmask < AddrBits
    /\ contains(prev, Sibling(arg))
    /\ ~contains(prev, arg)
    /\ Range(arg) \cap Members(prev) # {}
    /\ Parent(arg) \in MaximalBlocks(Members(TreeOf("a")))

\* C16: after s.remove(p) the enumeration of s is exactly the list of
\* maximal CIDR blocks covering (addresses of s before the call) minus
\* (addresses of p); when no address of p was in the set the trie is left
\* unchanged.
C16_RemoveExact ==
    last.op = "remove" =>
        /\ Members(TreeOf("a")) = Members(prev) \ Range(arg)
        /\ ListsBlocksOf(iter(TreeOf("a")), Members(prev) \ Range(arg))
        /\ Range(arg) \cap Members(prev) = {} =>
              (TreeOf("a") = prev /\ (root["a"] = None <=> prev = EmptyTree))

\* C16 witness: the longest prefix was carved out of the universal set, which
\* split the covering leaf into one sibling leaf per level.
C16_Witness ==
    /\ last.op = "remove"
    /\ prev = {RootNode}
    /\ arg.bitmask = AddrBits
    /\ size(TreeOf("a")) = AddrBits

\* C16, the other case: a remove of a block none of whose addresses was in
\* a non-empty set.
C16_NothingToRemove ==
    /\ last.op = "remove"
    /\ prev # EmptyTree
    /\ Range(arg) \cap Members(prev) = {}

-----------------------------------------------------------------------------
(* Claims about a + b and a - b (specification SpecOps) *)

\* The set a.clone() becomes when remove(c) is called for every c of args.
RECURSIVE remove_each(_, _)
remove_each(T, args) ==
    IF args = << >> THEN T
    ELSE remove_each(after_remove(T, Head(args)), Tail(args))

\* C5: an address is a member of a + b exactly when it is a member of a or
\* a member of b.
C5_UnionMembers ==
    last.op = "union" =>
        /\ last.ret = "ok"
        /\ Members(TreeOf("r")) = Members(TreeOf("a")) \cup Members(TreeOf("b"))

\* C5 witness: a + b of two sets neither of which covers the other, whose
\* blocks merge in the result.
C5_Witness ==
    /\ last.op = "union"
    /\ ~(Members(TreeOf("a")) \subseteq Members(TreeOf("b")))
    /\ ~(Members(TreeOf("b")) \subseteq Members(TreeOf("a")))
    /\ size(TreeOf("r")) < size(TreeOf("a")) + size(TreeOf("b"))
    /\ Members(TreeOf("r")) # ValidIp

\* C6: an address is a member of a - b exactly when it is a member of a and
\* not a member of b.
C6_DiffMembers ==
    last.op = "diff" =>
        Members(TreeOf("r")) = Members(TreeOf("a")) \ Members(TreeOf("b"))

\* C7: a - b compares equal to a.clone() after remove(c) for every block c
\* enumerated from b.
C7_DiffEqualsRemoves ==
    last.op = "diff" =>
        eq(TreeOf("r"), remove_each(clone(TreeOf("a")), iter(TreeOf("b"))))

\* C8: a + b compares equal to a.clone() after add(c) for every block c
\* enumerated from b.
C8_UnionEqualsAdds ==
    last.op = "union" =>
        eq(TreeOf("r"), extend(clone(TreeOf("a")), iter(TreeOf("b"))))

\* C8 witness: a + b where b has several blocks, some new to a, and blocks
\* of a and b merge.
C8_Witness ==
    /\ last.op = "union"
    /\ size(TreeOf("b")) >= 2
    /\ size(TreeOf("a")) >= 2
    /\ ~(Members(TreeOf("b")) \subseteq Members(TreeOf("a")))
    /\ size(TreeOf("r")) = 1

\* C17: two CidrSets built from the empty set by sequences of add and remove
\* calls that cover the same addresses have structurally identical tries, so
\* == is true for them and their enumerations are identical; sets covering
\* different addresses compare unequal.
C17_SameAddressesSameTrie ==
    LET A == TreeOf("a")
        B == TreeOf("b")
    IN IF Members(A) = Members(B)
       THEN A = B /\ eq(A, B) /\ eq(B, A) /\ iter(A) = iter(B)
       ELSE ~eq(A, B) /\ ~eq(B, A)

\* C17 witness: a was built by adding a block and then its sibling, b by
\* removing the other half from the universal set; they cover the same
\* addresses, in separate Node objects.
C17_Witness ==
    \E c \in Cidrs :
        /\ c.bitmask = AddrBits
        /\ TreeOf("a") = add(add(EmptyTree, c), Sibling(c))
        /\ TreeOf("b") = after_remove(add(EmptyTree, Cidr(0, 0)),
                                      Sibling(Parent(c)))
        /\ Members(TreeOf("a")) = Members(TreeOf("b"))
        /\ root["a"] # root["b"]

\* C17, the converse case: two sets of as many blocks that cover different
\* addresses.
C17_DifferentAddresses ==
    /\ size(TreeOf("a")) = size(TreeOf("b"))
    /\ size(TreeOf("a")) >= 2
    /\ Members(TreeOf("a")) # Members(TreeOf("b"))

-----------------------------------------------------------------------------
(* Claims about clone and == (specification SpecClone) *)

\* The other one of the two sets a and b.
Other(o) == IF o = "a" THEN "b" ELSE "a"

\* C9: a.clone() == a is true for every set; two empty sets are equal; a
\* non-empty set never compares equal to an empty set.
C9_EqCloneAndEmpty ==
    /\ last.op = "clone" => eq(TreeOf(last.obj), TreeOf(Other(last.obj)))
    /\ \A o \in {"a", "b"} :
          LET T == TreeOf(o)
              U == TreeOf(Other(o))
          IN /\ (size(T) = 0 /\ size(U) = 0) => eq(T, U)
             /\ (size(T) # 0 /\ size(U) = 0) => (~eq(T, U) /\ ~eq(U, T))

\* C9 witness: a set of several blocks has just been cloned.
C9_Witness ==
    /\ last.op = "clone"
    /\ size(TreeOf("a")) >= 2
    /\ root["a"] # None /\ root["b"] # None

\* The two sets share no Node: their root references differ.
NoSharedNode == root["a"] # None => root["a"] # root["b"]

\* C10: once one of a and b is the clone of the other, add and remove calls
\* on one of them (a: the original after b = a.clone(), the clone after
\* a = b.clone()) leave the tree of the other unchanged, and the two sets
\* share no Node.
C10_CloneIndependent ==
    /\ []NoSharedNode
    /\ [][last'.op = "change" => TreeOf("b")' = TreeOf("b")]_vars

\* C10 witness: after a clone call, a has been changed and b still holds a
\* tree, different from that of a.
C10_Witness ==
    /\ last.op = "change"
    /\ root["a"] # None /\ root["b"] # None
    /\ TreeOf("a") # TreeOf("b")
    /\ size(TreeOf("b")) >= 2

-----------------------------------------------------------------------------
(* Claims about Cidr (specification SpecCidr) *)

\* The leading n bits of an address.
Leading(ip, n) == ip \div Pow2(AddrBits - n)

\* C12: a Cidr constructed from a valid address and prefix length n stores
\* the address with its low-order (AddrBits - n) bits cleared, so bit(k) is 0
\* for every k > n; two Cidr values built with the same n from addresses that
\* agree on their leading n bits are equal; constructing again from the
\* normalized (address, n) yields an equal value.
C12_Normalized ==
    /\ \A v \in CidrNames :
          made[v] # NoCidr =>
              LET n == given[v].bitmask
              IN /\ given[v].ip \in ValidIp /\ n \in ValidBitmask
                 /\ made[v].bitmask = n
                 /\ made[v].ip = given[v].ip - (given[v].ip % Pow2(AddrBits - n))
                 /\ \A k \in (n + 1) .. AddrBits : bit(made[v], k) = 0
    /\ ( /\ made["x"] # NoCidr /\ made["y"] # NoCidr
         /\ given["x"].bitmask = given["y"].bitmask
         /\ Leading(given["x"].ip, given["x"].bitmask)
               = Leading(given["y"].ip, given["y"].bitmask) )
       => cidr_eq(made["x"], made["y"])
    /\ ( /\ made["x"] # NoCidr
         /\ given["y"] = [ip |-> made["x"].ip, bitmask |-> made["x"].bitmask] )
       => cidr_eq(made["y"], made["x"])

\* C12 witness: x was built from an address with low-order bits set under a
\* short prefix length, and y from the normalized values of x.
C12_Witness ==
    /\ made["x"] # NoCidr
    /\ given["x"].bitmask < AddrBits
    /\ given["x"].ip # made["x"].ip
    /\ given["y"] = [ip |-> made["x"].ip, bitmask |-> made["x"].bitmask]
    /\ given["x"].bitmask > 0

-----------------------------------------------------------------------------
(* Claims about operands of another type (specification SpecOperand) *)

\* The last call applied +, - or == to a second operand that is no CidrSet.
OtherOperandCall ==
    /\ last.op \in {"union", "diff", "eq"}
    /\ last.other # "CidrSet"

\* C13, as stated: +, - and == applied to a right operand that is not a
\* CidrSet fail with a TypeError instead of returning a result, and the left
\* operand is left unchanged.
C13_TypeError ==
    OtherOperandCall => (last.ret = "TypeError" /\ TreeOf("a") = prev)

\* C13, amended: +, - and == applied to a right operand that is not a
\* CidrSet fail with a ValueError instead of returning a result, and the
\* left operand is left unchanged.
C13_ValueError ==
    OtherOperandCall => (last.ret = "ValueError" /\ TreeOf("a") = prev)

\* C13 witness: a set of several blocks was compared with, added to or
\* subtracted from a value of another type, and the call raised.
C13_Witness ==
    /\ OtherOperandCall
    /\ last.op = "diff"
    /\ last.other = "Cidr"
    /\ last.ret # "ok"
    /\ size(TreeOf("a")) >= 2

-----------------------------------------------------------------------------
(* Claims about the while loops of + and - (specification SpecLoop) *)

\* The passes a traversal over the tree B can take: every node of B is
\* entered once and left at most twice, and the last pass returns.
MaxPasses(B) == 3 * Cardinality(B) + 1

\* C14: for every pair of sets a, b built through add and remove, a + b and
\* a - b never raise an error (no attribute of an absent node is used) and
\* their while loops do not run forever: a loop over the tree of b has
\* returned a CidrSet after at most MaxPasses(b) passes.
C14_Total ==
    /\ last.ret # "error"
    /\ last.ret = "running" => trav.passes <= MaxPasses(trav.B)
    /\ last.op \in {"union", "diff"} /\ last.ret # "running" =>
          /\ last.ret = "ok"
          /\ trav = NoTraversal
          /\ IsTree(TreeOf("r"))

\* C14, as a progress property: a call that has entered its while loop
\* returns.
C14_Returns == (last.ret = "running") ~> (last.ret = "ok")

\* C14 witness: the loop of a - b is in a late pass over a set b of several
\* blocks, back at a node whose right branch is done.
C14_Witness ==
    /\ last.op = "diff"
    /\ last.ret = "running"
    /\ trav.passes >= 2 * Cardinality(trav.B)
    /\ size(TreeOf("b")) >= 2
    /\ size(TreeOf("a")) >= 2
    /\ trav.b_q # NoNode

\* C14, both operators: a + b has returned for universal a and a set b of
\* several blocks.
C14_UnionReturned ==
    /\ last.op = "union" /\ last.ret = "ok"
    /\ TreeOf("a") = {RootNode}
    /\ size(TreeOf("b")) >= 2

====
